---- MODULE Spec2Model ----
(***************************************************************************)
(* The CR -> UX synchronizer of pkg/server/event/sync/cr2ux.go: the naming *)
(* resolver getApp, the dispatch AddOrUpdate with its console-origin and   *)
(* CLI-origin branches, the ordered persistence pipeline, the revision     *)
(* cache and DeleteApp.                                                    *)
(*                                                                         *)
(* Go strings are sequences of one-character strings, so that composing a  *)
(* key (name + "-" + namespace) and replacing a colon are computed, not    *)
(* assumed.  Errors are opaque strings; "nil" is the nil error.            *)
(***************************************************************************)
EXTENDS Naturals, Sequences, FiniteSets, TLC

VARIABLES
    store,           \* c.ds, the application records: key -> record or NoApp
    cache,           \* c.cache: composed key -> (synced revision, target count)
    hasAppService,   \* c.applicationService != nil
    last,            \* the last event: its input, the calls it made, its result
    runs             \* the runs of syncAppCreatedByCLI in flight at once, by namespace

vars == <<store, cache, hasAppService, last, runs>>

----------------------------------------------------------------------------
(* Bounds of the model. *)

NumNamespaces == 2
MaxRev == 1

AllNamespaces == << <<"a">>, <<"b">>, <<"c">>, <<"d">> >>
Namespaces == {AllNamespaces[i] : i \in 1..NumNamespaces}
Names == { <<"x">> }
Revisions == 1..MaxRev
\* Revision r of a delivered resource declares r deployment targets.
TargetsOf(rev) == rev

----------------------------------------------------------------------------
(* Errors. *)

NoErr == "nil"
ErrRecordNotExist == "record not exist"
ErrStore == "datastore unavailable"
ErrConvert == "convert failed"
ErrSyncWorkflowRecord == "sync workflow record failed"
ErrDelete == "delete failed"
ErrAppNameEmpty == "appName is empty in application"
StepErr(step) == "store failed: " \o step

----------------------------------------------------------------------------
(* The store. *)

NoApp == [name |-> <<>>, ns |-> <<>>, rev |-> 0]

\* formatAppComposedName with the name in the place of the namespace.
formatAppComposedName_nameTwice(name, namespace) == name \o <<"-">> \o name

formatAppComposedName(name, namespace) == name \o <<"-">> \o namespace

Keys == Names \cup {formatAppComposedName(n, ns) : n \in Names, ns \in Namespaces}
\* The revision cache is a map from any string; these are the keys in use.
CacheKeys == Keys

\* ds.Get by primary key: the record, ErrRecordNotExist, or (fail) another error.
Get(st, key, fail) ==
    IF fail THEN [rec |-> NoApp, err |-> ErrStore]
    ELSE IF st[key] = NoApp THEN [rec |-> NoApp, err |-> ErrRecordNotExist]
    ELSE [rec |-> st[key], err |-> NoErr]

\* getApp without the comparison of the sync-namespace label.
getApp_ignoresLabel(st, name, namespace, fail1, fail2) ==
    LET composed == name \o <<"-">> \o namespace
        r1 == Get(st, composed, fail1)
        r2 == Get(st, name, fail2)
    IN  IF r1.err = NoErr
        THEN [app |-> r1.rec, key |-> r1.rec.name, err |-> NoErr]
        ELSE IF r2.err = NoErr
             THEN [app |-> r2.rec, key |-> name, err |-> NoErr]
             ELSE [app |-> NoApp, key |-> name, err |-> r2.err]

\* getApp answering the composed key when neither probe finds a record.
getApp_composedWhenAbsent(st, name, namespace, fail1, fail2) ==
    LET composed == name \o <<"-">> \o namespace
        r1 == Get(st, composed, fail1)
        r2 == Get(st, name, fail2)
    IN  IF r1.err = NoErr
        THEN [app |-> r1.rec, key |-> r1.rec.name, err |-> NoErr]
        ELSE IF r2.err = NoErr
             THEN IF r2.rec.ns # namespace
                  THEN [app |-> NoApp, key |-> composed, err |-> r1.err]
                  ELSE [app |-> r2.rec, key |-> name, err |-> NoErr]
             ELSE [app |-> NoApp, key |-> composed, err |-> r2.err]

\* getApp with the comparison of the sync-namespace label inverted.
getApp_labelCheckInverted(st, name, namespace, fail1, fail2) ==
    LET composed == name \o <<"-">> \o namespace
        r1 == Get(st, composed, fail1)
        r2 == Get(st, name, fail2)
    IN  IF r1.err = NoErr
        THEN [app |-> r1.rec, key |-> r1.rec.name, err |-> NoErr]
        ELSE IF r2.err = NoErr
             THEN IF r2.rec.ns = namespace
                  THEN [app |-> NoApp, key |-> composed, err |-> r1.err]
                  ELSE [app |-> r2.rec, key |-> name, err |-> NoErr]
             ELSE [app |-> NoApp, key |-> name, err |-> r2.err]

\* getApp answering the declared name as the key of a record found under the
\* composed key.
getApp_composedFoundBareKey(st, name, namespace, fail1, fail2) ==
    LET composed == name \o <<"-">> \o namespace
        r1 == Get(st, composed, fail1)
        r2 == Get(st, name, fail2)
    IN  IF r1.err = NoErr
        THEN [app |-> r1.rec, key |-> name, err |-> NoErr]
        ELSE IF r2.err = NoErr
             THEN IF r2.rec.ns # namespace
                  THEN [app |-> NoApp, key |-> composed, err |-> r1.err]
                  ELSE [app |-> r2.rec, key |-> name, err |-> NoErr]
             ELSE [app |-> NoApp, key |-> name, err |-> r2.err]

\* getApp probing the bare name before the composed key.
getApp_bareFirst(st, name, namespace, fail1, fail2) ==
    LET composed == name \o <<"-">> \o namespace
        r1 == Get(st, composed, fail1)
        r2 == Get(st, name, fail2)
    IN  IF r2.err = NoErr /\ r2.rec.ns = namespace
        THEN [app |-> r2.rec, key |-> name, err |-> NoErr]
        ELSE IF r1.err = NoErr
             THEN [app |-> r1.rec, key |-> r1.rec.name, err |-> NoErr]
             ELSE IF r2.err = NoErr
                  THEN [app |-> NoApp, key |-> composed, err |-> r1.err]
                  ELSE [app |-> NoApp, key |-> name, err |-> r2.err]

\* getApp answering the bare name as the key when the bare record carries
\* another namespace's label.
getApp_mismatchBareKey(st, name, namespace, fail1, fail2) ==
    LET composed == name \o <<"-">> \o namespace
        r1 == Get(st, composed, fail1)
        r2 == Get(st, name, fail2)
    IN  IF r1.err = NoErr
        THEN [app |-> r1.rec, key |-> r1.rec.name, err |-> NoErr]
        ELSE IF r2.err = NoErr
             THEN IF r2.rec.ns # namespace
                  THEN [app |-> NoApp, key |-> name, err |-> r1.err]
                  ELSE [app |-> r2.rec, key |-> name, err |-> NoErr]
             ELSE [app |-> NoApp, key |-> name, err |-> r2.err]

\* What getApp answers after its two ds.Get returned r1 and r2; r2 is looked
\* at only when the first failed.
getAppResult(r1, r2, name, namespace) ==
    IF r1.err = NoErr
    THEN [app |-> r1.rec, key |-> r1.rec.name, err |-> NoErr]
    ELSE IF r2.err = NoErr
         THEN IF r2.rec.ns # namespace
              THEN [app |-> NoApp, key |-> formatAppComposedName(name, namespace),
                    err |-> r1.err]
              ELSE [app |-> r2.rec, key |-> name, err |-> NoErr]
         ELSE [app |-> NoApp, key |-> name, err |-> r2.err]

\* getApp: fail1 and fail2 say whether the first and the second ds.Get fail.
getApp(st, name, namespace, fail1, fail2) ==
    LET composed == formatAppComposedName(name, namespace)
        r1 == Get(st, composed, fail1)
        r2 == Get(st, name, fail2)
    IN  IF r1.err = NoErr
        THEN [app |-> r1.rec, key |-> r1.rec.name, err |-> NoErr]
        ELSE IF r2.err = NoErr
             THEN IF r2.rec.ns # namespace
                  THEN [app |-> NoApp, key |-> composed, err |-> r1.err]
                  ELSE [app |-> r2.rec, key |-> name, err |-> NoErr]
             ELSE [app |-> NoApp, key |-> name, err |-> r2.err]

getAppMetaName(st, name, namespace, fail1, fail2) ==
    getApp(st, name, namespace, fail1, fail2).key

\* The second ds.Get of getApp is made only when the first did not succeed.
SecondProbeMade(st, name, namespace, fail1) ==
    Get(st, formatAppComposedName(name, namespace), fail1).err # NoErr

----------------------------------------------------------------------------
(* Live resources (Application CRs). *)

NoWorkflow == [present |-> FALSE, appRevision |-> <<>>]
Workflows == {NoWorkflow, [present |-> TRUE, appRevision |-> <<"r", ":", "1">>]}
PublishVersions == { <<>>, <<"v", "2">> }

\* A resource: its identity, its origin as the classifier sees it, the
\* application-name and publish-version annotations, status.workflow, and the
\* revision of its spec, which the conversion reads.
CLIResources ==
    [name : Names, ns : Namespaces, origin : {"cli"}, appName : { <<>> },
     pv : PublishVersions, wf : Workflows, rev : Revisions]
UXResources ==
    [name : Names, ns : Namespaces, origin : {"ux"}, appName : { <<>> } \cup Names,
     pv : PublishVersions, wf : {NoWorkflow}, rev : {1}]
OtherResources ==
    [name : Names, ns : Namespaces, origin : {"other"}, appName : { <<>> },
     pv : { <<>> }, wf : {NoWorkflow}, rev : {1}]
Resources == CLIResources \cup UXResources \cup OtherResources
NoResource ==
    [name |-> <<>>, ns |-> <<>>, origin |-> "", appName |-> <<>>, pv |-> <<>>,
     wf |-> NoWorkflow, rev |-> 0]

appFromUX(app) == app.origin = "ux"
appFromCLI(app) == app.origin = "cli"

\* oam.GetPublishVersion: the publish-version annotation, "" when absent.
GetPublishVersion(app) == app.pv

\* strings.Replace(s, old, new, 1): the first occurrence only.
RECURSIVE ReplaceFirst(_, _, _)
ReplaceFirst(s, old, new) ==
    IF s = <<>> THEN <<>>
    ELSE IF Head(s) = old THEN <<new>> \o Tail(s)
    ELSE <<Head(s)>> \o ReplaceFirst(Tail(s), old, new)

\* The record name of the workflow-record sync of a CLI-origin resource.
recordNameOf(app) ==
    IF GetPublishVersion(app) # <<>> THEN GetPublishVersion(app)
    ELSE IF app.wf.present THEN ReplaceFirst(app.wf.appRevision, ":", "-")
    ELSE <<>>

----------------------------------------------------------------------------
(* The conversion stage and the ordered persistence pipeline. *)

\* Steps with StoreEnvBinding ahead of StoreEnv.
Steps_bindingBeforeEnv ==
    << "project", "targets", "envbinding", "env", "components", "policies",
       "workflow", "revision", "record", "appmeta" >>

\* The Store* calls of syncAppCreatedByCLI, in the order of the code.
Steps ==
    << "project", "targets", "env", "envbinding", "components", "policies",
       "workflow", "revision", "record", "appmeta" >>

NoDsApp == [key |-> <<>>, ns |-> <<>>, rev |-> 0, ntargets |-> 0, hasProject |-> FALSE]

\* ConvertApp2DatastoreApp: the naming resolver gives AppMeta.Name; the
\* sync-namespace label is the resource's namespace.
ConvertApp2DatastoreApp(st, app, hasProject) ==
    [key |-> getApp(st, app.name, app.ns, FALSE, FALSE).key, ns |-> app.ns,
     rev |-> app.rev, ntargets |-> TargetsOf(app.rev), hasProject |-> hasProject]

\* The steps of one run: StoreProject is called only when dsApp.Project != nil.
Plan(dsApp) == IF dsApp.hasProject THEN Steps ELSE Tail(Steps)

Range(s) == {s[i] : i \in 1..Len(s)}

\* Attempted with the error of StoreComponents logged and not returned.
RECURSIVE Attempted_componentsErrorIgnored(_, _)
Attempted_componentsErrorIgnored(plan, bad) ==
    IF plan = <<>> THEN <<>>
    ELSE IF Head(plan) = bad /\ bad # "components" THEN <<Head(plan)>>
    ELSE <<Head(plan)>> \o Attempted_componentsErrorIgnored(Tail(plan), bad)

\* The steps attempted when step `bad` fails: each returns on its error.
RECURSIVE Attempted(_, _)
Attempted(plan, bad) ==
    IF plan = <<>> THEN <<>>
    ELSE IF Head(plan) = bad THEN <<Head(plan)>>
    ELSE <<Head(plan)>> \o Attempted(Tail(plan), bad)

PipelineErr(ran, bad) == IF bad \in Range(ran) THEN StepErr(bad) ELSE NoErr

\* The attempted steps that wrote, in order: every one but the failed.
RECURSIVE Written(_, _)
Written(ran, bad) ==
    IF ran = <<>> THEN <<>>
    ELSE IF Head(ran) = bad THEN Written(Tail(ran), bad)
    ELSE <<Head(ran)>> \o Written(Tail(ran), bad)

\* StoreAppMeta: upsert of the application record under AppMeta.Name.
StoreAppMeta(st, dsApp) ==
    [st EXCEPT ![dsApp.key] = [name |-> dsApp.key, ns |-> dsApp.ns, rev |-> dsApp.rev]]

getSyncedRevision(rev) == <<"v", rev>>

NoEntry == [rev |-> <<>>, targets |-> 0]

syncCache(ch, key, syncedVersion, ntargets) ==
    [ch EXCEPT ![key] = [rev |-> syncedVersion, targets |-> ntargets]]

\* The cache key taken from AppMeta.Name, the key of the record.
CacheKeyOf_appMetaName(app, dsApp) == dsApp.key

\* The key of the cache update: composed from the resource's name and namespace.
CacheKeyOf(app, dsApp) == formatAppComposedName(app.name, app.ns)

\* Pipeline with the cache update made whether or not a step failed.
Pipeline_cachesOnFailure(st, ch, app, dsApp, bad) ==
    LET ran == Attempted(Plan(dsApp), bad)
        wrote == Written(ran, bad)
        err == PipelineErr(ran, bad)
    IN  [store |-> IF "appmeta" \in Range(wrote) THEN StoreAppMeta(st, dsApp) ELSE st,
         cache |-> syncCache(ch, CacheKeyOf(app, dsApp),
                             getSyncedRevision(dsApp.rev), dsApp.ntargets),
         ran |-> ran, wrote |-> wrote, err |-> err]

\* The pipeline of syncAppCreatedByCLI on the conversion result dsApp, failing
\* at step `bad` of its plan or nowhere (bad = "none"), and the cache update
\* that follows a run without error.
Pipeline(st, ch, app, dsApp, bad) ==
    LET ran == Attempted(Plan(dsApp), bad)
        wrote == Written(ran, bad)
        err == PipelineErr(ran, bad)
    IN  [store |-> IF "appmeta" \in Range(wrote) THEN StoreAppMeta(st, dsApp) ELSE st,
         cache |-> IF err = NoErr
                   THEN syncCache(ch, CacheKeyOf(app, dsApp),
                                  getSyncedRevision(dsApp.rev), dsApp.ntargets)
                   ELSE ch,
         ran |-> ran, wrote |-> wrote, err |-> err]

\* ForwardWorkflowRecord that makes no call when no record name was found.
ForwardWorkflowRecord_skipsWithoutName(st, app, fail1, fail2) ==
    IF recordNameOf(app) = <<>> THEN <<>>
    ELSE << [appKey |-> getAppMetaName(st, app.name, app.ns, fail1, fail2),
             recordName |-> recordNameOf(app)] >>

\* The end of syncAppCreatedByCLI: the call of workflowService.SyncWorkflowRecord.
ForwardWorkflowRecord(st, app, fail1, fail2) ==
    << [appKey |-> getAppMetaName(st, app.name, app.ns, fail1, fail2),
        recordName |-> recordNameOf(app)] >>

----------------------------------------------------------------------------
(* The events.  `last` is the event just handled: the resource, the result *)
(* of shouldSyncMetaFromCLI when it was evaluated, the conversion result,  *)
(* the pipeline steps attempted, those that wrote and the one that failed, *)
(* the collaborator calls in order, the calls of SyncWorkflowRecord and of *)
(* the deletion with their arguments, the key getApp resolved, the         *)
(* failures the store and the collaborators answered with, and the error   *)
(* returned.  The sub-entity stores belong to the collaborators: what the  *)
(* Store* steps wrote is kept in the event, the application records and    *)
(* the revision cache are state.                                           *)

NoFaults == [fail1 |-> FALSE, fail2 |-> FALSE, call |-> FALSE]

\* The collaborator calls of a CLI-origin event, in order.
CallsOf(ran, swr) == ran \o [i \in 1..Len(swr) |-> "SyncWorkflowRecord"]

\* No run in flight: the events of the watcher are handled one at a time.
NoRuns == << >>

NoEvent ==
    [op |-> "none", app |-> NoResource, due |-> FALSE, conv |-> NoDsApp,
     ran |-> <<>>, wrote |-> <<>>, failed |-> "none", calls |-> <<>>,
     swr |-> <<>>, key |-> <<>>, got |-> NoApp, del |-> <<>>, faults |-> NoFaults,
     ret |-> NoErr, redelivery |-> FALSE, fresh |-> FALSE]

Init ==
    /\ store = [k \in Keys |-> NoApp]
    /\ cache = [k \in CacheKeys |-> NoEntry]
    /\ hasAppService \in BOOLEAN
    /\ last = NoEvent
    /\ runs = NoRuns

\* The failures an event may meet in the two probes of getApp and in the call
\* that follows them; the second probe can fail only when it is made.
ProbeFaults(st, app) ==
    {f \in [fail1 : BOOLEAN, fail2 : BOOLEAN, call : BOOLEAN] :
        f.fail2 => SecondProbeMade(st, app.name, app.ns, f.fail1)}

\* syncAppCreatedByUX without the check of the application-name annotation.
syncAppCreatedByUX_callsWithoutName(app, re) ==
    /\ appFromUX(app)
    /\ \E swrFail \in BOOLEAN :
        /\ last' = [NoEvent EXCEPT
               !.op = "AddOrUpdate", !.app = app, !.redelivery = re,
               !.swr = << [appKey |-> app.appName, recordName |-> app.pv] >>,
               !.calls = << "SyncWorkflowRecord" >>,
               !.faults = [NoFaults EXCEPT !.call = swrFail],
               !.ret = IF swrFail THEN ErrSyncWorkflowRecord ELSE NoErr]
        /\ UNCHANGED <<store, cache, hasAppService, runs>>

\* syncAppCreatedByUX
syncAppCreatedByUX(app, re) ==
    /\ appFromUX(app)
    /\ \E swrFail \in BOOLEAN :
        LET appPrimaryKey == app.appName
            recordName == app.pv
            called == appPrimaryKey # <<>>
        IN  /\ swrFail => called
            /\ last' = [NoEvent EXCEPT
                   !.op = "AddOrUpdate", !.app = app, !.redelivery = re,
                   !.swr = IF called
                           THEN << [appKey |-> appPrimaryKey, recordName |-> recordName] >>
                           ELSE <<>>,
                   !.calls = IF called THEN << "SyncWorkflowRecord" >> ELSE <<>>,
                   !.faults = [NoFaults EXCEPT !.call = swrFail],
                   !.ret = IF ~called THEN ErrAppNameEmpty
                           ELSE IF swrFail THEN ErrSyncWorkflowRecord ELSE NoErr]
            /\ UNCHANGED <<store, cache, hasAppService, runs>>

\* syncAppCreatedByCLI when shouldSyncMetaFromCLI is false: only the
\* workflow-record sync.
syncWorkflowOnly(app, re) ==
    \E f \in ProbeFaults(store, app) :
        /\ last' = [NoEvent EXCEPT
               !.op = "AddOrUpdate", !.app = app, !.redelivery = re,
               !.swr = ForwardWorkflowRecord(store, app, f.fail1, f.fail2),
               !.calls = CallsOf(<<>>, ForwardWorkflowRecord(store, app, f.fail1, f.fail2)),
               !.faults = f,
               !.ret = IF f.call THEN ErrSyncWorkflowRecord ELSE NoErr]
        /\ UNCHANGED <<store, cache, hasAppService, runs>>

\* syncAppCreatedByCLI when ConvertApp2DatastoreApp fails.
syncConvertFails(app, re) ==
    /\ last' = [NoEvent EXCEPT
           !.op = "AddOrUpdate", !.app = app, !.redelivery = re, !.due = TRUE,
           !.failed = "convert", !.faults = [NoFaults EXCEPT !.call = TRUE],
           !.ret = ErrConvert]
    /\ UNCHANGED <<store, cache, hasAppService, runs>>

\* syncAppCreatedByCLI when a step of the pipeline fails.
syncStepFails(app, re) ==
    \E hasProject \in BOOLEAN :
      \E dsApp \in {ConvertApp2DatastoreApp(store, app, hasProject)} :
        \E bad \in Range(Plan(dsApp)) :
          \E p \in {Pipeline(store, cache, app, dsApp, bad)} :
            /\ store' = p.store
            /\ cache' = p.cache
            /\ last' = [NoEvent EXCEPT
                   !.op = "AddOrUpdate", !.app = app, !.redelivery = re, !.due = TRUE,
                   !.conv = dsApp, !.ran = p.ran, !.wrote = p.wrote,
                   !.failed = bad, !.calls = CallsOf(p.ran, <<>>),
                   !.faults = [NoFaults EXCEPT !.call = TRUE],
                   !.ret = p.err]
            /\ UNCHANGED <<hasAppService, runs>>

\* syncAppCreatedByCLI when the whole pipeline succeeds.
syncFull(app, re) ==
    \E hasProject \in BOOLEAN :
      \E dsApp \in {ConvertApp2DatastoreApp(store, app, hasProject)} :
        \E p \in {Pipeline(store, cache, app, dsApp, "none")} :
          \E f \in ProbeFaults(p.store, app) :
            /\ store' = p.store
            /\ cache' = p.cache
            /\ last' = [NoEvent EXCEPT
                   !.op = "AddOrUpdate", !.app = app, !.redelivery = re, !.due = TRUE,
                   !.conv = dsApp, !.ran = p.ran, !.wrote = p.wrote,
                   !.fresh = (store[dsApp.key] = NoApp),
                   !.swr = ForwardWorkflowRecord(p.store, app, f.fail1, f.fail2),
                   !.calls = CallsOf(p.ran,
                                     ForwardWorkflowRecord(p.store, app, f.fail1, f.fail2)),
                   !.faults = f,
                   !.ret = IF f.call THEN ErrSyncWorkflowRecord ELSE NoErr]
            /\ UNCHANGED <<hasAppService, runs>>

syncAppCreatedByCLI(app, re) ==
    /\ ~appFromUX(app)
    /\ appFromCLI(app)
    /\ \/ syncWorkflowOnly(app, re)
       \/ syncConvertFails(app, re)
       \/ syncStepFails(app, re)
       \/ syncFull(app, re)

\* The default case of AddOrUpdate's switch.
skipSyncing(app, re) ==
    /\ ~appFromUX(app)
    /\ ~appFromCLI(app)
    /\ last' = [NoEvent EXCEPT !.op = "AddOrUpdate", !.app = app, !.redelivery = re]
    /\ UNCHANGED <<store, cache, hasAppService, runs>>

\* The switch of AddOrUpdate with the CLI branch as its default case.
dispatch_defaultSyncs(app, re) ==
    \/ syncAppCreatedByUX(app, re)
    \/ syncAppCreatedByCLI(app, re)
    \/ (~appFromUX(app) /\ ~appFromCLI(app) /\ syncFull(app, re))

\* The switch of AddOrUpdate on a resource; re marks a redelivery.
dispatch(app, re) ==
    \/ syncAppCreatedByUX(app, re)
    \/ syncAppCreatedByCLI(app, re)
    \/ skipSyncing(app, re)

\* The watcher delivers a create/update event; same-identity events are
\* serialized and the handlers of this specification run one at a time.
AddOrUpdate(app) ==
    /\ last.op = "none"
    /\ dispatch(app, FALSE)

\* applicationService.DeleteApplication of the resolved record.
DeleteApplication(st, app) == [st EXCEPT ![app.name] = NoApp]

\* ds.Delete of the record with the given key.
Delete(st, key) == [st EXCEPT ![key] = NoApp]

\* DeleteApp without its gate: the record is resolved and deleted although
\* neither appFromCLI nor shouldSyncMetaFromCLI(isDelete) holds.
deleteGated_actsAnyway(app) ==
    /\ ~appFromCLI(app)
    /\ \E got \in {getApp(store, app.name, app.ns, FALSE, FALSE)} :
        /\ store' = IF got.err # NoErr THEN store ELSE Delete(store, got.key)
        /\ last' = [NoEvent EXCEPT
               !.op = "DeleteApp", !.app = app, !.key = got.key,
               !.del = IF got.err = NoErr THEN << [via |-> "ds", key |-> got.key] >>
                       ELSE <<>>,
               !.ret = got.err]
        /\ UNCHANGED <<cache, hasAppService, runs>>

\* DeleteApp when neither appFromCLI nor shouldSyncMetaFromCLI(isDelete) holds.
deleteGated(app) ==
    /\ ~appFromCLI(app)
    /\ last' = [NoEvent EXCEPT !.op = "DeleteApp", !.app = app]
    /\ UNCHANGED <<store, cache, hasAppService, runs>>

\* DeleteApp past its gate without the return on getApp's error: the key
\* getApp answered is deleted from the store.
deleteResolved_ignoresError(app) ==
    \E f \in ProbeFaults(store, app) :
      \E got \in {getApp(store, app.name, app.ns, f.fail1, f.fail2)} :
        /\ store' = IF f.call THEN store ELSE Delete(store, got.key)
        /\ last' = [NoEvent EXCEPT
               !.op = "DeleteApp", !.app = app, !.due = ~appFromCLI(app),
               !.key = got.key, !.faults = f,
               !.del = << [via |-> "ds", key |-> got.key] >>,
               !.ret = IF f.call THEN ErrDelete ELSE NoErr]
        /\ UNCHANGED <<cache, hasAppService, runs>>

\* DeleteApp past its gate; shouldSyncMetaFromCLI is evaluated only for a
\* resource that is not from the CLI.
deleteResolved(app) ==
    \E f \in ProbeFaults(store, app) :
      \E got \in {getApp(store, app.name, app.ns, f.fail1, f.fail2)} :
        LET acts == got.err = NoErr
            done == acts /\ ~f.call
        IN  /\ f.call => acts
            /\ store' = IF ~done THEN store
                        ELSE IF hasAppService THEN DeleteApplication(store, got.app)
                        ELSE Delete(store, got.key)
            /\ last' = [NoEvent EXCEPT
                   !.op = "DeleteApp", !.app = app, !.due = ~appFromCLI(app),
                   !.key = got.key, !.faults = f,
                   !.del = IF acts
                           THEN << [via |-> IF hasAppService THEN "service" ELSE "ds",
                                    key |-> IF hasAppService THEN got.app.name
                                            ELSE got.key] >>
                           ELSE <<>>,
                   !.ret = IF got.err # NoErr THEN got.err
                           ELSE IF f.call THEN ErrDelete ELSE NoErr]
            /\ UNCHANGED <<cache, hasAppService, runs>>

\* The watcher delivers a delete event.
DeleteApp(app) ==
    /\ last.op = "none"
    /\ \/ deleteGated(app)
       \/ deleteResolved(app)

\* The watcher takes the result of the event; the next one can be delivered.
Return ==
    /\ last.op # "none"
    /\ last' = NoEvent
    /\ UNCHANGED <<store, cache, hasAppService, runs>>

\* At-least-once delivery: the resource of a fully synced event is delivered
\* once more, unchanged (it carries the same project), right after it.
Redeliver ==
    /\ last.op = "AddOrUpdate"
    /\ ~last.redelivery
    /\ "appmeta" \in Range(last.wrote)
    /\ dispatch(last.app, TRUE)
    /\ last'.conv # NoDsApp => last'.conv.hasProject = last.conv.hasProject

----------------------------------------------------------------------------
(* The naming resolver alone, on any content of the store.  The store is   *)
(* shared with the console and the application service: a record may sit   *)
(* under any key with any sync-namespace label.                            *)

\* The records ds.Get can find under key k.
RecordsAt(k) ==
    {NoApp} \cup [name : {k}, ns : Namespaces, rev : Revisions]

InitResolver ==
    /\ store \in {st \in [Keys -> UNION {RecordsAt(k) : k \in Keys}] :
                     \A k \in Keys : st[k] \in RecordsAt(k)}
    /\ cache = [k \in CacheKeys |-> NoEntry]
    /\ hasAppService \in BOOLEAN
    /\ last = NoEvent
    /\ runs = NoRuns

\* The store reads of one getApp, in order.
ProbesOf(st, name, namespace, fail1) ==
    IF SecondProbeMade(st, name, namespace, fail1)
    THEN << formatAppComposedName(name, namespace), name >>
    ELSE << formatAppComposedName(name, namespace) >>

\* One call of getApp(name, namespace).
Resolve(name, namespace) ==
    /\ last.op = "none"
    /\ \E f \in {g \in ProbeFaults(store, [name |-> name, ns |-> namespace]) : ~g.call} :
         \E got \in {getApp(store, name, namespace, f.fail1, f.fail2)} :
           last' = [NoEvent EXCEPT
                       !.op = "getApp",
                       !.app = [NoResource EXCEPT !.name = name, !.ns = namespace],
                       !.calls = ProbesOf(store, name, namespace, f.fail1),
                       !.key = got.key, !.got = got.app, !.faults = f,
                       !.ret = got.err]
    /\ UNCHANGED <<store, cache, hasAppService, runs>>

NextResolver == (\E n \in Names, ns \in Namespaces : Resolve(n, ns)) \/ Return

SpecResolver == InitResolver /\ [][NextResolver]_vars

----------------------------------------------------------------------------
(* Three namespaces declaring one name: the bare name can pass from its   *)
(* owner to a third namespace while another holds its composed key.        *)

ThreeNamespaces == { <<"a">>, <<"b">>, <<"c">> }

StabilityKeys ==
    Names \cup {formatAppComposedName(n, ns) : n \in Names, ns \in ThreeNamespaces}

StabilityResources ==
    [name : Names, ns : ThreeNamespaces, origin : {"cli"}, appName : { <<>> },
     pv : { <<"v", "2">> }, wf : {NoWorkflow}, rev : Revisions]

InitStability ==
    /\ store = [k \in StabilityKeys |-> NoApp]
    /\ cache = [k \in StabilityKeys |-> NoEntry]
    /\ hasAppService \in BOOLEAN
    /\ last = NoEvent
    /\ runs = NoRuns

NextStability ==
    (\E app \in StabilityResources : AddOrUpdate(app) \/ DeleteApp(app)) \/ Return

SpecStability == InitStability /\ [][NextStability]_vars

----------------------------------------------------------------------------
(* Names and namespaces that contain the separator: Kubernetes allows '-'  *)
(* in both.                                                                *)

DashIdentities ==
    { [name |-> <<"x">>, ns |-> <<"a">>],
      [name |-> <<"x", "-", "a">>, ns |-> <<"b">>],
      [name |-> <<"x">>, ns |-> <<"a", "-", "b">>] }

DashKeys ==
    {id.name : id \in DashIdentities}
        \cup {formatAppComposedName(id.name, id.ns) : id \in DashIdentities}

DashResources ==
    {app \in [name : {id.name : id \in DashIdentities},
              ns : {id.ns : id \in DashIdentities},
              origin : {"cli"}, appName : { <<>> },
              pv : { <<"v", "2">> }, wf : {NoWorkflow}, rev : Revisions] :
        [name |-> app.name, ns |-> app.ns] \in DashIdentities}

InitDash ==
    /\ store = [k \in DashKeys |-> NoApp]
    /\ cache = [k \in DashKeys |-> NoEntry]
    /\ hasAppService \in BOOLEAN
    /\ last = NoEvent
    /\ runs = NoRuns

NextDash ==
    (\E app \in DashResources : AddOrUpdate(app) \/ DeleteApp(app)) \/ Return

SpecDash == InitDash /\ [][NextDash]_vars

----------------------------------------------------------------------------
(* Runs of syncAppCreatedByCLI for one declared name in several            *)
(* namespaces at once: the watcher dispatches the events of different      *)
(* identities concurrently, and every ds.Get, Store* call and collaborator *)
(* call of a run is one step.  Metadata sync is due, and no call fails.    *)

NoGet == [rec |-> NoApp, err |-> NoErr]

\* The declared name of the concurrent runs.
ConcurrentName == CHOOSE n \in Names : TRUE

InitConcurrent ==
    /\ store = [k \in Keys |-> NoApp]
    /\ cache = [k \in CacheKeys |-> NoEntry]
    /\ hasAppService \in BOOLEAN
    /\ last = NoEvent
    /\ runs \in [Namespaces -> [pc : {"convert"}, rev : Revisions, r1 : {NoGet},
                                key : { <<>> }, appKey : { <<>> }]]

\* ConvertApp2DatastoreApp resolving the key: the probe of the composed key.
convertProbeComposed(ns) ==
    /\ runs[ns].pc = "convert"
    /\ \E r1 \in {Get(store, formatAppComposedName(ConcurrentName, ns), FALSE)} :
         runs' = [runs EXCEPT
                     ![ns].r1 = r1,
                     ![ns].pc = IF r1.err = NoErr THEN "store" ELSE "convertBare",
                     ![ns].key = IF r1.err = NoErr
                                 THEN getAppResult(r1, NoGet, ConcurrentName, ns).key
                                 ELSE <<>>]
    /\ UNCHANGED <<store, cache, hasAppService, last>>

\* ConvertApp2DatastoreApp resolving the key: the probe of the bare name.
convertProbeBare(ns) ==
    /\ runs[ns].pc = "convertBare"
    /\ \E r2 \in {Get(store, ConcurrentName, FALSE)} :
         runs' = [runs EXCEPT
                     ![ns].pc = "store",
                     ![ns].key = getAppResult(runs[ns].r1, r2, ConcurrentName, ns).key]
    /\ UNCHANGED <<store, cache, hasAppService, last>>

\* StoreProject ... StoreWorkflowRecord: none writes an application record.
storeSubEntities(ns) ==
    /\ runs[ns].pc = "store"
    /\ runs' = [runs EXCEPT ![ns].pc = "appmeta"]
    /\ UNCHANGED <<store, cache, hasAppService, last>>

\* StoreAppMeta of the run.
storeAppMeta(ns) ==
    /\ runs[ns].pc = "appmeta"
    /\ store' = StoreAppMeta(store, [key |-> runs[ns].key, ns |-> ns,
                                     rev |-> runs[ns].rev,
                                     ntargets |-> TargetsOf(runs[ns].rev),
                                     hasProject |-> TRUE])
    /\ runs' = [runs EXCEPT ![ns].pc = "cache"]
    /\ UNCHANGED <<cache, hasAppService, last>>

\* The cache update of the run.
updateCache(ns) ==
    /\ runs[ns].pc = "cache"
    /\ cache' = syncCache(cache, formatAppComposedName(ConcurrentName, ns),
                          getSyncedRevision(runs[ns].rev), TargetsOf(runs[ns].rev))
    /\ runs' = [runs EXCEPT ![ns].pc = "name"]
    /\ UNCHANGED <<store, hasAppService, last>>

\* getAppMetaName: the probe of the composed key.
nameProbeComposed(ns) ==
    /\ runs[ns].pc = "name"
    /\ \E r1 \in {Get(store, formatAppComposedName(ConcurrentName, ns), FALSE)} :
         runs' = [runs EXCEPT
                     ![ns].r1 = r1,
                     ![ns].pc = IF r1.err = NoErr THEN "swr" ELSE "nameBare",
                     ![ns].appKey = IF r1.err = NoErr
                                    THEN getAppResult(r1, NoGet, ConcurrentName, ns).key
                                    ELSE <<>>]
    /\ UNCHANGED <<store, cache, hasAppService, last>>

\* getAppMetaName: the probe of the bare name.
nameProbeBare(ns) ==
    /\ runs[ns].pc = "nameBare"
    /\ \E r2 \in {Get(store, ConcurrentName, FALSE)} :
         runs' = [runs EXCEPT
                     ![ns].pc = "swr",
                     ![ns].appKey = getAppResult(runs[ns].r1, r2, ConcurrentName, ns).key]
    /\ UNCHANGED <<store, cache, hasAppService, last>>

\* workflowService.SyncWorkflowRecord returns nil and so does the run.
syncWorkflowRecord(ns) ==
    /\ runs[ns].pc = "swr"
    /\ runs' = [runs EXCEPT ![ns].pc = "done"]
    /\ UNCHANGED <<store, cache, hasAppService, last>>

NextConcurrent ==
    \E ns \in Namespaces :
        \/ convertProbeComposed(ns)
        \/ convertProbeBare(ns)
        \/ storeSubEntities(ns)
        \/ storeAppMeta(ns)
        \/ updateCache(ns)
        \/ nameProbeComposed(ns)
        \/ nameProbeBare(ns)
        \/ syncWorkflowRecord(ns)

SpecConcurrent == InitConcurrent /\ [][NextConcurrent]_vars

----------------------------------------------------------------------------
Next == (\E app \in Resources : AddOrUpdate(app) \/ DeleteApp(app)) \/ Return

Spec == Init /\ [][Next]_vars

NextRedelivery ==
    (\E app \in Resources : AddOrUpdate(app) \/ DeleteApp(app)) \/ Redeliver \/ Return

SpecRedelivery == Init /\ [][NextRedelivery]_vars

----------------------------------------------------------------------------
(* The claims. *)

\* The composed key of an identity, as the claims write it.
ComposedKey(n, ns) == n \o <<"-">> \o ns

\* Event e is a CLI-origin AddOrUpdate of (n, ns) whose pipeline wrote the
\* application record.
FullSyncOf(e, n, ns) ==
    /\ e.op = "AddOrUpdate"
    /\ appFromCLI(e.app)
    /\ e.app.name = n
    /\ e.app.ns = ns
    /\ "appmeta" \in Range(e.wrote)

\* C1: whenever the store holds a record under the bare name n labelled with
\* namespace a and none under the composed key n-b, b # a, getApp(n, b) answers
\* no record, the not-found error and the key n-b; and a full sync of (n, b)
\* that then persists under n-b leaves the record under n as it was.
C1_NameCollision ==
    [][\A n \in Names, a \in Namespaces, b \in Namespaces :
          (/\ a # b
           /\ store[n] # NoApp
           /\ store[n].ns = a
           /\ store[ComposedKey(n, b)] = NoApp)
          => /\ getApp(store, n, b, FALSE, FALSE)
                   = [app |-> NoApp, key |-> ComposedKey(n, b), err |-> ErrRecordNotExist]
             /\ (FullSyncOf(last', n, b) /\ last'.conv.key = ComposedKey(n, b))
                   => store'[n] = store[n]]_vars

\* C1, reached: the bare name is owned by another namespace and the last event
\* fully synced (n, b) under its composed key.
C1_Witness ==
    \E n \in Names, a \in Namespaces, b \in Namespaces :
        /\ a # b
        /\ store[n] # NoApp
        /\ store[n].ns = a
        /\ FullSyncOf(last, n, b)
        /\ last.conv.key = ComposedKey(n, b)
        /\ store[ComposedKey(n, b)] # NoApp
        /\ store[ComposedKey(n, b)].ns = b

\* C2: when the store holds no record under the composed key and none under
\* the bare name, getApp answers no record, the not-found error and the bare
\* name as the key.
C2_FirstClaim ==
    \A n \in Names, ns \in Namespaces :
        (store[ComposedKey(n, ns)] = NoApp /\ store[n] = NoApp)
        => getApp(store, n, ns, FALSE, FALSE)
               = [app |-> NoApp, key |-> n, err |-> ErrRecordNotExist]

\* C2, reached: a DeleteApp of an identity without any record resolved the
\* bare name and returned not-found.
C2_Witness ==
    /\ last.op = "DeleteApp"
    /\ appFromCLI(last.app)
    /\ last.faults = NoFaults
    /\ store[last.app.name] = NoApp
    /\ store[ComposedKey(last.app.name, last.app.ns)] = NoApp
    /\ last.del = <<>>
    /\ last.key = last.app.name
    /\ last.ret = ErrRecordNotExist

\* The records of the store are where their labels say: each under the bare
\* name or under the composed key of the namespace of its label, and no two
\* namespaces resolve to one record.
C3_Owned ==
    /\ \A k \in DOMAIN store :
          store[k] # NoApp
          => /\ store[k].name = k
             /\ store[k].ns \in Namespaces
             /\ \E n \in Names : k = n \/ k = ComposedKey(n, store[k].ns)
    /\ \A n \in Names :
          Cardinality({ns \in Namespaces : store[n] # NoApp /\ store[n].ns = ns}) <= 1
    /\ \A n \in Names, a \in Namespaces, b \in Namespaces :
          LET ra == getApp(store, n, a, FALSE, FALSE)
              rb == getApp(store, n, b, FALSE, FALSE)
          IN  (a # b /\ ra.err = NoErr /\ rb.err = NoErr) => ra.key # rb.key

IndexOf(plan, s) ==
    IF \E i \in 1..Len(plan) : plan[i] = s
    THEN CHOOSE i \in 1..Len(plan) : plan[i] = s
    ELSE 0

\* C4: when a step of the pipeline returns an error, the steps after it are
\* not run, what the steps before it wrote stays written, AddOrUpdate returns
\* that step's error, and neither the application record, the cache nor the
\* workflow-record sync is reached.
C4_FailFast ==
    [][(last'.op = "AddOrUpdate" /\ last'.failed \in Range(Steps))
          => LET plan == IF last'.conv.hasProject THEN Steps ELSE Tail(Steps)
                 i == IndexOf(plan, last'.failed)
             IN  /\ i > 0
                 /\ last'.ran = SubSeq(plan, 1, i)
                 /\ last'.wrote = SubSeq(plan, 1, i - 1)
                 /\ last'.calls = last'.ran
                 /\ last'.swr = <<>>
                 /\ last'.ret = StepErr(last'.failed)
                 /\ store' = store
                 /\ cache' = cache]_vars

\* C4, reached: the components step failed after four steps had written.
C4_Witness ==
    /\ last.op = "AddOrUpdate"
    /\ last.failed = "components"
    /\ last.ran = <<"project", "targets", "env", "envbinding", "components">>
    /\ last.wrote = <<"project", "targets", "env", "envbinding">>
    /\ last.ret = StepErr("components")

\* The order of the pipeline, as the claims write it.
C5_Order ==
    << "project", "targets", "env", "envbinding", "components", "policies",
       "workflow", "revision", "record", "appmeta" >>

IsPrefix(s, t) == Len(s) <= Len(t) /\ s = SubSeq(t, 1, Len(s))

\* C5 as stated: every pipeline run attempts its steps along the order project,
\* targets, environment, environment-binding, components, policies, workflow,
\* revision, workflow record, application metadata, starting with the project.
C5_AlwaysFromProject ==
    (last.op = "AddOrUpdate" /\ last.ran # <<>>) => IsPrefix(last.ran, C5_Order)

\* C5, amended: the project step is attempted only when the conversion result
\* carries a project; a run attempts its steps along the order project (when
\* there is one), targets, environment, environment-binding, components,
\* policies, workflow, revision, workflow record, application metadata; a step
\* is attempted only after every earlier step of the run wrote, and the
\* application record is written only after all the others.
C5_FixedWriteOrder ==
    (last.op = "AddOrUpdate" /\ last.ran # <<>>)
    => /\ IsPrefix(last.ran, IF last.conv.hasProject THEN C5_Order ELSE Tail(C5_Order))
       /\ IsPrefix(last.wrote, last.ran)
       /\ Len(last.wrote) >= Len(last.ran) - 1
       /\ "appmeta" \in Range(last.wrote)
             => /\ last.wrote = (IF last.conv.hasProject THEN C5_Order ELSE Tail(C5_Order))
                /\ last.wrote[Len(last.wrote)] = "appmeta"

\* C5, reached: a run without a project wrote its nine steps, from targets to
\* the application record.
C5_Witness ==
    /\ last.op = "AddOrUpdate"
    /\ ~last.conv.hasProject
    /\ last.wrote = Tail(C5_Order)
    /\ store[last.conv.key] # NoApp

\* C6: after a pipeline run for (name, namespace) completed every step with
\* revision R and N targets, the cache entry under the composed key
\* name-namespace is (getSyncedRevision(R), N), whether the record is stored
\* under the bare name or under the composed key.
C6_CacheFreshness ==
    (/\ last.op = "AddOrUpdate"
     /\ "appmeta" \in Range(last.wrote)
     /\ last.conv.key \in {last.app.name, ComposedKey(last.app.name, last.app.ns)})
    => cache[ComposedKey(last.app.name, last.app.ns)]
           = [rev |-> getSyncedRevision(last.conv.rev), targets |-> last.conv.ntargets]

\* C6, reached: a full run whose record is stored under the bare name while
\* another namespace has its record under its composed key; the entry has the
\* run's revision and target count.
C6_Witness ==
    /\ last.op = "AddOrUpdate"
    /\ "appmeta" \in Range(last.wrote)
    /\ last.conv.key = last.app.name
    /\ last.conv.ntargets > 0
    /\ cache[ComposedKey(last.app.name, last.app.ns)].targets = last.conv.ntargets
    /\ \E ns \in Namespaces :
          /\ ns # last.app.ns
          /\ store[ComposedKey(last.app.name, ns)] # NoApp
          /\ cache[ComposedKey(last.app.name, ns)] # NoEntry
    /\ cache[last.app.name] = NoEntry

\* C7: a CLI-origin resource delivered to AddOrUpdate a second time, unchanged,
\* right after its full sync, leaves the store and the revision cache as the
\* first delivery left them; when the second run converts, it resolves the
\* same canonical key, and it writes nothing the first run did not write.
C7_Idempotence ==
    [][last'.redelivery
          => /\ store' = store
             /\ cache' = cache
             /\ last'.app = last.app
             /\ last'.conv # NoDsApp => last'.conv = last.conv
             /\ Range(last'.wrote) \subseteq Range(last.wrote)]_vars

\* C7, reached: the second delivery ran the whole pipeline again, on a record
\* stored under the composed key.
C7_Witness ==
    /\ last.redelivery
    /\ last.op = "AddOrUpdate"
    /\ "appmeta" \in Range(last.wrote)
    /\ last.conv.key = ComposedKey(last.app.name, last.app.ns)
    /\ store[last.app.name] # NoApp

\* C8: DeleteApp of a CLI-origin resource (name, ns) whose record exists under
\* the composed key leaves every other record unchanged; when the store and
\* the deletion answer without failure it resolves the composed key, removes
\* that record and returns no error.
C8_DeleteExactlyResolved ==
    [][(/\ last'.op = "DeleteApp"
        /\ appFromCLI(last'.app)
        /\ store[ComposedKey(last'.app.name, last'.app.ns)] # NoApp)
          => LET composed == ComposedKey(last'.app.name, last'.app.ns)
             IN  /\ \A k \in DOMAIN store : k # composed => store'[k] = store[k]
                 /\ last'.faults = NoFaults
                       => /\ last'.key = composed
                          /\ last'.ret = NoErr
                          /\ store'[composed] = NoApp
                          /\ last'.del = << [via |-> IF hasAppService THEN "service" ELSE "ds",
                                             key |-> composed] >>]_vars

\* C8, reached: the composed-key record was deleted while the bare name stays
\* with another namespace.
C8_Witness ==
    /\ last.op = "DeleteApp"
    /\ appFromCLI(last.app)
    /\ last.ret = NoErr
    /\ last.key = ComposedKey(last.app.name, last.app.ns)
    /\ Len(last.del) = 1
    /\ store[last.key] = NoApp
    /\ store[last.app.name] # NoApp
    /\ store[last.app.name].ns # last.app.ns

\* C9 as stated: every AddOrUpdate of a CLI-origin resource calls
\* SyncWorkflowRecord.
C9_AlwaysForwards ==
    (last.op = "AddOrUpdate" /\ appFromCLI(last.app) /\ ~appFromUX(last.app))
    => Len(last.swr) = 1

\* C9, amended: an AddOrUpdate of a CLI-origin resource calls SyncWorkflowRecord
\* once, after every step of the pipeline when the pipeline ran, whether or not
\* metadata sync is due, unless the conversion or a step of the pipeline
\* returned an error: then the error is returned and the call is not made.
C9_ForwardsUnlessFailed ==
    (last.op = "AddOrUpdate" /\ appFromCLI(last.app) /\ ~appFromUX(last.app))
    => /\ (last.failed = "none") <=> (Len(last.swr) = 1)
       /\ last.failed = "none"
             => /\ last.calls = last.ran \o << "SyncWorkflowRecord" >>
                /\ last.due => "appmeta" \in Range(last.ran)
       /\ last.failed # "none" => (last.swr = <<>> /\ last.ret # NoErr)

\* C9, reached: SyncWorkflowRecord was called after a full pipeline, and the
\* resource carries no publish version and no workflow status.
C9_Witness ==
    /\ last.op = "AddOrUpdate"
    /\ appFromCLI(last.app)
    /\ last.due
    /\ last.failed = "none"
    /\ Len(last.ran) = 10
    /\ last.calls[11] = "SyncWorkflowRecord"
    /\ last.app.pv = <<>>
    /\ ~last.app.wf.present

\* C10 as stated: an AddOrUpdate of a CLI-origin resource without a publish
\* version and without a workflow revision in its status does not call
\* SyncWorkflowRecord.
C10_SkipsWithoutVersion ==
    (/\ last.op = "AddOrUpdate"
     /\ appFromCLI(last.app)
     /\ ~appFromUX(last.app)
     /\ last.app.pv = <<>>
     /\ ~last.app.wf.present)
    => last.swr = <<>>

\* C11: an AddOrUpdate of a console-origin resource runs no step of the
\* pipeline and writes neither the store nor the cache; with an empty
\* application-name annotation it returns an error without calling
\* SyncWorkflowRecord, otherwise it calls SyncWorkflowRecord once, with the
\* annotation as the app key and the publish-version annotation (or the empty
\* string) as the record name, and returns the result of that call.
C11_ConsoleDispatch ==
    [][(last'.op = "AddOrUpdate" /\ appFromUX(last'.app))
          => /\ last'.ran = <<>>
             /\ last'.wrote = <<>>
             /\ last'.conv = NoDsApp
             /\ store' = store
             /\ cache' = cache
             /\ IF last'.app.appName = <<>>
                THEN /\ last'.swr = <<>>
                     /\ last'.calls = <<>>
                     /\ last'.ret = ErrAppNameEmpty
                ELSE /\ last'.swr = << [appKey |-> last'.app.appName,
                                        recordName |-> last'.app.pv] >>
                     /\ last'.calls = << "SyncWorkflowRecord" >>
                     /\ last'.ret = IF last'.faults.call THEN ErrSyncWorkflowRecord
                                    ELSE NoErr]_vars

\* C11, reached: a console-origin resource without a publish version was
\* forwarded while the store holds a record and the cache an entry.
C11_Witness ==
    /\ last.op = "AddOrUpdate"
    /\ appFromUX(last.app)
    /\ last.app.appName # <<>>
    /\ last.app.pv = <<>>
    /\ Len(last.swr) = 1
    /\ last.swr[1].recordName = <<>>
    /\ last.ret = NoErr
    /\ \E k \in DOMAIN store : store[k] # NoApp /\ cache[k] # NoEntry

\* C12: an AddOrUpdate of a resource that is neither console-origin nor
\* CLI-origin returns nil, calls neither the store nor a collaborator, and
\* leaves the store and the cache unchanged.
C12_UnrecognizedSkipped ==
    [][(/\ last'.op = "AddOrUpdate"
        /\ ~appFromUX(last'.app)
        /\ ~appFromCLI(last'.app))
          => /\ last'.ret = NoErr
             /\ last'.calls = <<>>
             /\ last'.swr = <<>>
             /\ last'.ran = <<>>
             /\ last'.key = <<>>
             /\ last'.del = <<>>
             /\ store' = store
             /\ cache' = cache]_vars

\* C12, reached: an unrecognized resource was skipped although a record is
\* stored for its name and namespace.
C12_Witness ==
    /\ last.op = "AddOrUpdate"
    /\ ~appFromUX(last.app)
    /\ ~appFromCLI(last.app)
    /\ last.ret = NoErr
    /\ getApp(store, last.app.name, last.app.ns, FALSE, FALSE).err = NoErr

\* C13: a DeleteApp of a resource that is not CLI-origin and for which
\* shouldSyncMetaFromCLI (isDelete) does not hold returns nil without reading
\* or deleting anything and without calling the application service; a
\* DeleteApp that resolves or deletes is one of a CLI-origin resource or one
\* for which the predicate holds.
C13_DeleteGating ==
    [][last'.op = "DeleteApp"
          => /\ (~appFromCLI(last'.app) /\ ~last'.due)
                   => /\ last'.ret = NoErr
                      /\ last'.key = <<>>
                      /\ last'.del = <<>>
                      /\ last'.faults = NoFaults
                      /\ store' = store
                      /\ cache' = cache
             /\ (last'.key # <<>> \/ last'.del # <<>> \/ store' # store)
                   => (appFromCLI(last'.app) \/ last'.due)]_vars

\* C13, reached: the delete of a console-origin resource was a no-op although
\* a record is stored for its name and namespace.
C13_Witness ==
    /\ last.op = "DeleteApp"
    /\ appFromUX(last.app)
    /\ ~last.due
    /\ last.ret = NoErr
    /\ last.del = <<>>
    /\ getApp(store, last.app.name, last.app.ns, FALSE, FALSE).err = NoErr

\* C14 as stated: an AddOrUpdate of a CLI-origin resource during which a store
\* read or a collaborator call failed returns an error.
C14_FailuresPropagate ==
    (/\ last.op = "AddOrUpdate"
     /\ appFromCLI(last.app)
     /\ ~appFromUX(last.app)
     /\ (last.faults.fail1 \/ last.faults.fail2 \/ last.faults.call))
    => last.ret # NoErr

\* C15: a DeleteApp past its gate returns getApp's error, not-found included,
\* and deletes nothing when getApp fails; otherwise it makes one deletion:
\* DeleteApplication of the resolved record when the application service is
\* configured, else ds.Delete of the record with the canonical key.
C15_DeleteResolution ==
    [][(last'.op = "DeleteApp" /\ (appFromCLI(last'.app) \/ last'.due))
          => LET n == last'.app.name
                 ns == last'.app.ns
                 f == last'.faults
                 got == getApp(store, n, ns, f.fail1, f.fail2)
             IN  /\ got.err # NoErr
                       => /\ last'.ret = got.err
                          /\ last'.del = <<>>
                          /\ store' = store
                 /\ got.err = NoErr
                       => /\ last'.del =
                                 << IF hasAppService
                                    THEN [via |-> "service", key |-> got.app.name]
                                    ELSE [via |-> "ds", key |-> got.key] >>
                          /\ last'.ret = IF f.call THEN ErrDelete ELSE NoErr
                          /\ ~f.call => store' = [store EXCEPT ![got.key] = NoApp]
                          /\ f.call => store' = store
                 /\ (/\ f = NoFaults
                     /\ store[ComposedKey(n, ns)] = NoApp
                     /\ (store[n] = NoApp \/ store[n].ns # ns))
                       => /\ last'.ret = ErrRecordNotExist
                          /\ last'.del = <<>>
                          /\ store' = store
                 /\ cache' = cache]_vars

\* C15, reached: the deletion of a composed-key record was delegated to the
\* application service.
C15_Witness ==
    /\ last.op = "DeleteApp"
    /\ hasAppService
    /\ last.ret = NoErr
    /\ last.del = << [via |-> "service",
                      key |-> ComposedKey(last.app.name, last.app.ns)] >>
    /\ store[ComposedKey(last.app.name, last.app.ns)] = NoApp
    /\ store[last.app.name] # NoApp

\* C16: whenever a record exists under the composed key name-namespace,
\* getApp(name, namespace) returns that record, the composed key and no error,
\* whatever is stored under the bare name and whether or not the bare probe
\* would fail; the bare name is probed only after the composed probe did not
\* succeed, and a record under the bare name is returned only when its
\* sync-namespace label is the requesting namespace.
C16_ComposedKeyPrecedence ==
    /\ \A n \in Names, ns \in Namespaces, f2 \in BOOLEAN :
          store[ComposedKey(n, ns)] # NoApp
          => getApp(store, n, ns, FALSE, f2)
                 = [app |-> store[ComposedKey(n, ns)], key |-> ComposedKey(n, ns),
                    err |-> NoErr]
    /\ last.op = "getApp"
          => LET n == last.app.name
                 ns == last.app.ns
                 composed == ComposedKey(n, ns)
             IN  /\ last.calls[1] = composed
                 /\ Len(last.calls) = 2
                       => /\ last.calls[2] = n
                          /\ (store[composed] = NoApp \/ last.faults.fail1)
                 /\ (store[composed] # NoApp /\ ~last.faults.fail1)
                       => /\ last.calls = << composed >>
                          /\ last.got = store[composed]
                          /\ last.key = composed
                          /\ last.ret = NoErr
                 /\ (last.got # NoApp /\ last.key = n)
                       => /\ last.got = store[n]
                          /\ last.got.ns = ns
                          /\ last.ret = NoErr

\* C16, reached: getApp returned the composed-key record although the bare
\* name holds a record with the requesting namespace's label.
C16_Witness ==
    /\ last.op = "getApp"
    /\ store[last.app.name] # NoApp
    /\ store[last.app.name].ns = last.app.ns
    /\ store[ComposedKey(last.app.name, last.app.ns)] # NoApp
    /\ last.key = ComposedKey(last.app.name, last.app.ns)
    /\ last.got = store[last.key]
    /\ last.ret = NoErr

C18_CanonicalKeyStability ==
    /\ [](\A n \in Names, ns \in ThreeNamespaces :
             LET g == getApp(store, n, ns, FALSE, FALSE)
             IN  g.app # NoApp => (g.app.ns = ns /\ g.app = store[g.key]))
    /\ [][\A n \in Names, ns \in ThreeNamespaces :
             LET g == getApp(store, n, ns, FALSE, FALSE)
                 h == getApp(store', n, ns, FALSE, FALSE)
             IN  g.err = NoErr
                 => /\ store'[g.key] # NoApp => (h.err = NoErr /\ h.key = g.key)
                    /\ (last'.op # "none" /\ last'.app.ns # ns)
                          => store'[g.key] = store[g.key]
                    /\ (/\ last'.op = "AddOrUpdate"
                        /\ last'.app.name = n
                        /\ last'.app.ns = ns
                        /\ last'.faults = NoFaults
                        /\ last'.swr # <<>>)
                          => last'.swr[1].appKey = g.key]_vars

\* C18, reached: a namespace has just claimed the bare name anew, which an
\* earlier owner had given up, while another namespace keeps its record under
\* its composed key and a third has nothing left but its cache entry.
C18_Witness ==
    \E n \in Names, a \in ThreeNamespaces, b \in ThreeNamespaces, c \in ThreeNamespaces :
        /\ a # b /\ b # c /\ a # c
        /\ FullSyncOf(last, n, c)
        /\ last.fresh
        /\ last.conv.key = n
        /\ store[n].ns = c
        /\ store[ComposedKey(n, b)] # NoApp
        /\ getApp(store, n, b, FALSE, FALSE).key = ComposedKey(n, b)
        /\ cache[ComposedKey(n, a)] # NoEntry
        /\ getApp(store, n, a, FALSE, FALSE).err = ErrRecordNotExist

\* C19 as stated, for names and namespaces that contain '-': getApp returns
\* for an identity no record that carries the namespace label of another
\* identity, and two distinct identities that both have their record have
\* different cache keys.
C19_UnambiguousResolution ==
    /\ \A id \in DashIdentities :
          LET g == getApp(store, id.name, id.ns, FALSE, FALSE)
          IN  g.app # NoApp => g.app.ns = id.ns
    /\ \A i1 \in DashIdentities, i2 \in DashIdentities :
          LET g1 == getApp(store, i1.name, i1.ns, FALSE, FALSE)
              g2 == getApp(store, i2.name, i2.ns, FALSE, FALSE)
          IN  (/\ i1 # i2
               /\ g1.app # NoApp /\ g1.app.ns = i1.ns
               /\ g2.app # NoApp /\ g2.app.ns = i2.ns)
              => /\ g1.key # g2.key
                 /\ CacheKeyOf(i1, NoDsApp) # CacheKeyOf(i2, NoDsApp)

\* C20 as stated: when the concurrent first runs of AddOrUpdate for one name
\* in different namespaces have all returned, each namespace has its record,
\* with its label, under the key its run persisted, the keys of different
\* namespaces differ, and the app key each run passed to SyncWorkflowRecord is
\* the key of its own record.
C20_NoCollision ==
    (\A ns \in Namespaces : runs[ns].pc = "done")
    => /\ \A ns \in Namespaces :
             /\ store[runs[ns].key] # NoApp
             /\ store[runs[ns].key].ns = ns
             /\ runs[ns].appKey = runs[ns].key
       /\ \A a \in Namespaces, b \in Namespaces :
             a # b => runs[a].key # runs[b].key

====
